---- MODULE Spec2Model ----
(***************************************************************************)
(* Model of src/ar/mod.rs (archive entry Header, its validation and the    *)
(* digit counter) and of the GNU archive builder that consumes it.         *)
(*                                                                         *)
(* u32 and u64 values are kept at full width.  TLC's integers are 32-bit,  *)
(* so a machine word is a little-endian tuple of 16-bit limbs: a u32 has   *)
(* two limbs, a u64 four.  Division by a radix is schoolbook long          *)
(* division over the limbs, exactly the quotient `val / radix` of Rust.    *)
(***************************************************************************)
EXTENDS Integers, Sequences, FiniteSets, TLC

VARIABLES
    hdr,          \* the Header (a record of its six fields), none before new
    ret,          \* what the most recent Header call returned
    lastMode,     \* history: argument of the latest set_mode, none after new
    lastValidate, \* history: result of validate() since the latest set_mode, if any
    ndIn,         \* num_digits: the arguments <<val, radix>>
    ndOut,        \* num_digits: the outcome of the call, none before it
    bld,          \* GnuBuilder: its fields (registered names, name table, started, ...)
    out           \* GnuBuilder: the byte sink, as the sequence of segments written

vars == <<hdr, ret, lastMode, lastValidate, ndIn, ndOut, bld, out>>

hdrVars == <<hdr, ret, lastMode, lastValidate>>
ndVars  == <<ndIn, ndOut>>
bldVars == <<bld, out>>

(***************************************************************************)
(* Bounds of the model.                                                    *)
(***************************************************************************)
MaxRadix == 16
MaxSmall == 70
MaxNames == 2
MaxAppends == 2
MaxBody == 2

(***************************************************************************)
(* Machine words.                                                          *)
(***************************************************************************)
LimbBase == 2^16

U32Limbs == 2
U64Limbs == 4

Zeros(n) == [i \in 1..n |-> 0]

\* A natural below 2^31 as a word of n limbs.
RECURSIVE ToLimbs(_, _)
ToLimbs(x, n) ==
    IF n = 0 THEN <<>> ELSE <<x % LimbBase>> \o ToLimbs(x \div LimbBase, n - 1)

U32(x) == ToLimbs(x, U32Limbs)
U64(x) == ToLimbs(x, U64Limbs)

\* `val.into()` for N = u32 or u64: zero extension to 64 bits.
Into64(v) == v \o Zeros(U64Limbs - Len(v))

IsZero(v) == \A i \in 1..Len(v) : v[i] = 0

\* v / r and v % r for a word v and 0 < r < 2^15 (long division, top limb first).
DivRem(v, r) ==
    LET n == Len(v)
        R[i \in 1..(n + 1)] ==
            IF i = n + 1 THEN 0 ELSE (R[i + 1] * LimbBase + v[i]) % r
        q == [i \in 1..n |-> (R[i + 1] * LimbBase + v[i]) \div r]
    IN  [quot |-> SubSeq(q, 1, n), rem |-> R[1]]

\* v * m + c as an unbounded natural (a limb longer than v when the product
\* carries out of v's top limb), 0 <= m, c < 2^15.
MulAdd(v, m, c) ==
    LET n == Len(v)
        C[i \in 0..n] ==
            IF i = 0 THEN c ELSE (v[i] * m + C[i - 1]) \div LimbBase
        low == [i \in 1..n |-> (v[i] * m + C[i - 1]) % LimbBase]
    IN  IF C[n] = 0 THEN SubSeq(low, 1, n) ELSE low \o <<C[n]>>

\* r^d as an unbounded natural, 0 <= r < 2^15.
RECURSIVE BigPow(_, _)
BigPow(r, d) ==
    IF d = 0 THEN <<1>>
    ELSE IF d >= 3 /\ r * r * r < 2^15
        \* three factors at a time while r^3 is a legal multiplier
        THEN LET p == BigPow(r, d - 3)
             IN  IF Len(p) > 0 THEN MulAdd(p, r * r * r, 0) ELSE p
    ELSE LET p == BigPow(r, d - 1)
         IN  IF Len(p) > 0 THEN MulAdd(p, r, 0) ELSE p

Limb(v, i) == IF i <= Len(v) THEN v[i] ELSE 0

\* a < b on naturals of any limb count.
BigLess(a, b) ==
    LET n == IF Len(a) > Len(b) THEN Len(a) ELSE Len(b)
    IN  \E i \in 1..n :
            /\ Limb(a, i) < Limb(b, i)
            /\ \A j \in (i + 1)..n : Limb(a, j) = Limb(b, j)

BigEq(a, b) == ~BigLess(a, b) /\ ~BigLess(b, a)

\* The natural written with the given digits (most significant first) in base r.
RECURSIVE Parse(_, _)
Parse(digits, r) ==
    IF digits = <<>> THEN <<0>>
    ELSE MulAdd(Parse(SubSeq(digits, 1, Len(digits) - 1), r), r, digits[Len(digits)])

\* The low n limbs of a natural: the value as a fixed-width word.
Word(v, n) == [i \in 1..n |-> Limb(v, i)]

Repeat(x, n) == [i \in 1..n |-> x]

(***************************************************************************)
(* fn num_digits<N: Into<u64>>(val: N, radix: u64) -> u64                  *)
(***************************************************************************)
Panics   == "panic: attempt to divide by zero"
Diverges == "does not return"

\* The while loop: one division and one increment per iteration.
RECURSIVE num_digits_loop(_, _, _)
num_digits_loop(val, radix, digits) ==
    IF IsZero(val) THEN digits
    ELSE num_digits_loop(DivRem(val, radix).quot, radix, digits + 1)

\* Mutant: no early return for zero, so zero has no digit.
num_digits_no_zero_case(v, radix) ==
    LET val == Into64(v)
    IN  IF IsZero(val) THEN num_digits_loop(val, radix, 0)
        ELSE IF radix = 0 THEN Panics
        ELSE IF radix = 1 THEN Diverges
        ELSE num_digits_loop(val, radix, 0)

\* Mutant: the digit counter starts at 1.
num_digits_from_one(v, radix) ==
    IF IsZero(Into64(v)) THEN 1 ELSE num_digits_loop(Into64(v), radix, 1)

num_digits(v, radix) ==
    LET val == Into64(v)
    IN  IF IsZero(val) THEN 1
        ELSE IF radix = 0 THEN Panics      \* val /= 0
        ELSE IF radix = 1 THEN Diverges    \* val /= 1 never reaches 0
        ELSE num_digits_loop(val, radix, 0)

(***************************************************************************)
(* The `{}` and `{:o}` formatting of an unsigned integer: its digits, most *)
(* significant first, "0" for zero.                                        *)
(***************************************************************************)
RECURSIVE FormatLoop(_, _)
FormatLoop(val, radix) ==
    IF IsZero(val) THEN <<>>
    ELSE FormatLoop(DivRem(val, radix).quot, radix) \o <<DivRem(val, radix).rem>>

Format(v, radix) == IF IsZero(v) THEN <<0>> ELSE FormatLoop(v, radix)

(***************************************************************************)
(* struct Header and impl Header                                           *)
(***************************************************************************)
DefaultMode == U32(6 * 64 + 4 * 8 + 4)    \* 0o644

\* Mutant: every field but identifier and size zero, the mode too.
new_mode_zero(identifier, size) ==
    [identifier |-> identifier, mtime |-> U64(0), uid |-> U32(0), gid |-> U32(0),
     mode |-> U32(0), size |-> size]

new(identifier, size) ==
    [identifier |-> identifier,
     mtime      |-> U64(0),
     uid        |-> U32(0),
     gid        |-> U32(0),
     mode       |-> DefaultMode,
     size       |-> size]

identifier(self) == self.identifier

\* Mutant: only the twelve permission bits are kept.
set_mode_masked(self, mode) == [self EXCEPT !.mode = <<mode[1] % 4096, 0>>]

set_mode(self, mode) == [self EXCEPT !.mode = mode]

size(self) == self.size

Ok == [ok |-> TRUE, msg |-> <<>>]

\* ensure!(cond, fmt, value): the io::Error carrying the formatted message, as
\* the text before the value, the formatted value and the text after it (the
\* two backquotes around the value are left out of the literal pieces).
Err(before, value, after) == [ok |-> FALSE, msg |-> <<before, value, after>>]

\* Mutant: each limit compared with < instead of <=.
validate_strict(self) ==
    IF ~(num_digits(self.mtime, 10) < 12)
        THEN Err("MTime ", Format(self.mtime, 10), " > 12 digits")
    ELSE IF ~(num_digits(self.uid, 10) < 6)
        THEN Err("UID ", Format(self.uid, 10), " > 6 digits")
    ELSE IF ~(num_digits(self.gid, 10) < 6)
        THEN Err("GID ", Format(self.gid, 10), " > 6 digits")
    ELSE IF ~(num_digits(self.mode, 8) < 8)
        THEN Err("Mode ", Format(self.mode, 8), " > 8 octal digits")
    ELSE Ok

\* Mutant: mtime allowed 13 digits.
validate_mtime_13(self) ==
    IF ~(num_digits(self.mtime, 10) <= 13)
        THEN Err("MTime ", Format(self.mtime, 10), " > 12 digits")
    ELSE IF ~(num_digits(self.uid, 10) <= 6)
        THEN Err("UID ", Format(self.uid, 10), " > 6 digits")
    ELSE IF ~(num_digits(self.gid, 10) <= 6)
        THEN Err("GID ", Format(self.gid, 10), " > 6 digits")
    ELSE IF ~(num_digits(self.mode, 8) <= 8)
        THEN Err("Mode ", Format(self.mode, 8), " > 8 octal digits")
    ELSE Ok

validate(self) ==
    IF ~(num_digits(self.mtime, 10) <= 12)
        THEN Err("MTime ", Format(self.mtime, 10), " > 12 digits")
    ELSE IF ~(num_digits(self.uid, 10) <= 6)
        THEN Err("UID ", Format(self.uid, 10), " > 6 digits")
    ELSE IF ~(num_digits(self.gid, 10) <= 6)
        THEN Err("GID ", Format(self.gid, 10), " > 6 digits")
    ELSE IF ~(num_digits(self.mode, 8) <= 8)
        THEN Err("Mode ", Format(self.mode, 8), " > 8 octal digits")
    ELSE Ok

(***************************************************************************)
(* Values the calls are made with.                                         *)
(***************************************************************************)
Nines(n)  == Word(Parse(Repeat(9, n), 10), U64Limbs)     \* 10^n - 1
Pow10(n)  == Word(BigPow(10, n), U64Limbs)               \* 10^n
Sevens(n) == Word(Parse(Repeat(7, n), 8), U64Limbs)      \* 8^n - 1
Pow8(n)   == Word(BigPow(8, n), U64Limbs)                \* 8^n
MaxWord(n) == Repeat(LimbBase - 1, n)                    \* 2^(16 n) - 1

Low32(v) == Word(v, U32Limbs)

\* A byte string of n copies of the byte c.
Name(c, n) == Repeat(c, n)

IdInputs == {Name("a", 0), Name("a", 1), Name("b", 16), Name("c", 17)}

SizeInputs == {U64(0), U64(1), Nines(10), Pow10(10), MaxWord(U64Limbs)}

MtimeInputs == {U64(0), U64(1), Nines(12), Pow10(12), MaxWord(U64Limbs)}

IdWordInputs == {U32(0), Low32(Nines(6)), Low32(Pow10(6)), MaxWord(U32Limbs)}

ModeInputs ==
    {U32(0), DefaultMode, Low32(Sevens(8)), Low32(Pow8(8)), MaxWord(U32Limbs)}

AnyHeader ==
    [identifier : {Name("a", 1), Name("c", 17)},
     mtime : MtimeInputs, uid : IdWordInputs, gid : IdWordInputs,
     mode : ModeInputs, size : SizeInputs]

RadixInputs == 0..MaxRadix

NdValInputs ==
    {U64(x) : x \in 0..MaxSmall}
        \cup {U32(x) : x \in 0..MaxSmall}
        \cup [1..U64Limbs -> {0, 1, LimbBase - 1}]
        \cup [1..U32Limbs -> {0, 1, LimbBase - 1}]
        \cup {Nines(6), Pow10(6), Nines(12), Pow10(12), Sevens(8), Pow8(8)}

\* An optional value is <<>> (none) or <<x>> (some x).
None == <<>>
Some(x) == <<x>>

NoCall == [op |-> "none", args |-> <<>>, val |-> <<>>]

HeaderIdle  == hdr = None /\ ret = NoCall /\ lastMode = None /\ lastValidate = None
NdIdle      == ndIn = <<>> /\ ndOut = None

(***************************************************************************)
(* The Header interface: new, then any calls of its methods.  The methods  *)
(* taking &self leave the header as it is; set_mode takes &mut self.       *)
(***************************************************************************)
New(id, sz) ==
    /\ hdr = None
    /\ hdr' = Some(new(id, sz))
    /\ ret' = [op |-> "new", args |-> <<id, sz>>, val |-> new(id, sz)]
    /\ lastMode' = None
    /\ lastValidate' = None
    /\ UNCHANGED <<ndVars, bldVars>>

Identifier ==
    /\ hdr # None
    /\ ret' = [op |-> "identifier", args |-> <<>>, val |-> identifier(hdr[1])]
    /\ UNCHANGED <<hdr, lastMode, lastValidate, ndVars, bldVars>>

SetMode(m) ==
    /\ hdr # None
    /\ hdr' = Some(set_mode(hdr[1], m))
    /\ ret' = [op |-> "set_mode", args |-> <<m>>, val |-> <<>>]
    /\ lastMode' = Some(m)
    /\ lastValidate' = None
    /\ UNCHANGED <<ndVars, bldVars>>

Size ==
    /\ hdr # None
    /\ ret' = [op |-> "size", args |-> <<>>, val |-> size(hdr[1])]
    /\ UNCHANGED <<hdr, lastMode, lastValidate, ndVars, bldVars>>

Validate ==
    /\ hdr # None
    /\ ret' = [op |-> "validate", args |-> <<>>, val |-> validate(hdr[1])]
    /\ lastValidate' = Some(validate(hdr[1]))
    /\ UNCHANGED <<hdr, lastMode, ndVars, bldVars>>

(***************************************************************************)
(* GnuBuilder.  The sink is the sequence of segments written so far: the   *)
(* global header, entry headers, bodies and pad bytes.  An entry header    *)
(* segment holds the header text as written; `hdr` and `member` record the *)
(* Header and the identifier the caller gave.  A body segment holds its    *)
(* length as a 64-bit word, and its bytes when the builder made them (the  *)
(* name table); the bytes of a caller's body are not looked at.            *)
(***************************************************************************)
GLOBAL_HEADER_LEN == 8
GLOBAL_HEADER == <<"!", "<", "a", "r", "c", "h", ">", "\n">>

GNU_NAME_TABLE_ID == <<"/", "/">>
GNU_SYMBOL_LOOKUP_TABLE_ID == <<"/">>

\* The columns of an entry header.
NAME_FIELD_LEN == 16
MTIME_FIELD_LEN == 12
UID_FIELD_LEN == 6
GID_FIELD_LEN == 6
MODE_FIELD_LEN == 8
SIZE_FIELD_LEN == 10

\* The two bytes ending an entry header: a backquote and a newline.
END_MARKER == <<"backquote", "\n">>

\* What ends an identifier in the name table.
NameSeparator == <<"/", "\n">>

DigitChar(d) == <<"0", "1", "2", "3", "4", "5", "6", "7", "8", "9">>[d + 1]

\* A word printed in the given radix, as text.
NumberText(v, radix) ==
    LET digits == Format(v, radix)
        text   == [i \in 1..Len(digits) |-> DigitChar(digits[i])]
    IN  SubSeq(text, 1, Len(digits))

\* A small natural printed in decimal.
DecimalText(n) == NumberText(U64(n), 10)

\* A text in its column: followed by spaces up to the column's width.
Column(text, width) == text \o Repeat(" ", width - Len(text))

PadField(text) == Column(text, NAME_FIELD_LEN)

\* v + w on naturals of any limb count.
BigAdd(v, w) ==
    LET n == IF Len(v) > Len(w) THEN Len(v) ELSE Len(w)
        C[i \in 0..n] ==
            IF i = 0 THEN 0 ELSE (Limb(v, i) + Limb(w, i) + C[i - 1]) \div LimbBase
        low == [i \in 1..n |-> (Limb(v, i) + Limb(w, i) + C[i - 1]) % LimbBase]
    IN  IF C[n] = 0 THEN SubSeq(low, 1, n) ELSE low \o <<C[n]>>

IsOdd(v) == Limb(v, 1) % 2 = 1

\* The name table and the offset of each long identifier in it, for the
\* identifiers given at construction, in their order.
RECURSIVE RegisterNames(_)
RegisterNames(ids) ==
    IF ids = <<>> THEN [name_table |-> <<>>, long_names |-> <<>>]
    ELSE LET prev == RegisterNames(SubSeq(ids, 1, Len(ids) - 1))
             id   == ids[Len(ids)]
         IN  IF Len(id) > NAME_FIELD_LEN
                 THEN [name_table |-> prev.name_table \o id \o NameSeparator,
                       long_names |-> (id :> Len(prev.name_table)) @@ prev.long_names]
                 ELSE prev

IdleBuilder ==
    [phase |-> "none", name_table |-> <<>>, long_names |-> <<>>,
     symbol_table |-> None, started |-> FALSE, appended |-> 0, error |-> ""]

\* GnuBuilder::new(writer, identifiers, symbol table): nothing is written yet.
builder_new(ids, sym) ==
    [phase        |-> "open",
     name_table   |-> RegisterNames(ids).name_table,
     long_names   |-> RegisterNames(ids).long_names,
     symbol_table |-> sym,
     started      |-> FALSE,
     appended     |-> 0,
     error        |-> ""]

\* The columns of a header after the name, in order: text and width.
NumericColumns(h) ==
    <<[text |-> NumberText(h.mtime, 10), width |-> MTIME_FIELD_LEN],
      [text |-> NumberText(h.uid, 10),   width |-> UID_FIELD_LEN],
      [text |-> NumberText(h.gid, 10),   width |-> GID_FIELD_LEN],
      [text |-> NumberText(h.mode, 8),   width |-> MODE_FIELD_LEN],
      [text |-> NumberText(h.size, 10),  width |-> SIZE_FIELD_LEN]>>

RECURSIVE ColumnsText(_)
ColumnsText(cols) ==
    IF cols = <<>> THEN <<>>
    ELSE Column(cols[1].text, cols[1].width) \o ColumnsText(Tail(cols))

\* Mutant: the columns are written without looking at their widths.
serialize_header_unchecked(name, h) ==
    [ok |-> TRUE,
     bytes |-> name \o ColumnsText(NumericColumns(h)) \o END_MARKER]

\* The header text: the name field, the numeric columns, the end marker.  It
\* fails, instead of truncating or widening, when a text overflows its column.
serialize_header(name, h) ==
    LET cols == NumericColumns(h)
    IN  IF \/ Len(name) > NAME_FIELD_LEN
           \/ \E k \in 1..Len(cols) : Len(cols[k].text) > cols[k].width
            THEN [ok |-> FALSE, bytes |-> <<>>]
        ELSE [ok |-> TRUE, bytes |-> name \o ColumnsText(cols) \o END_MARKER]

\* A member's data: its length, and its bytes when the builder made them.
Data(len, bytes) == [len |-> len, bytes |-> bytes]
TableData(bytes) == Data(U64(Len(bytes)), bytes)

MagicSeg == [kind |-> "magic", bytes |-> GLOBAL_HEADER,
             len |-> U64(Len(GLOBAL_HEADER)), hdr |-> None, member |-> None]
HeaderSeg(text, h, id) ==
    [kind |-> "header", bytes |-> text, len |-> U64(Len(text)),
     hdr |-> Some(h), member |-> Some(id)]
BodySeg(data) == [kind |-> "body", bytes |-> data.bytes, len |-> data.len,
                  hdr |-> None, member |-> None]
PadSeg == [kind |-> "pad", bytes |-> <<"\n">>, len |-> U64(1),
           hdr |-> None, member |-> None]

\* Mutant: no pad byte is written.
write_member_never_pads(text, h, id, data) ==
    <<HeaderSeg(text, h, id), BodySeg(data)>>

\* One member as written: header, body, and a pad byte iff the body is odd.
write_member(text, h, id, data) ==
    <<HeaderSeg(text, h, id), BodySeg(data)>>
        \o (IF IsOdd(data.len) THEN <<PadSeg>> ELSE <<>>)

\* The header of a reserved member: mtime, uid, gid and mode zeroed.
special_header(id, len) == set_mode(new(id, U64(len)), U32(0))

\* A reserved member: its identifier is written as it is.
write_special(id, bytes) ==
    write_member(serialize_header(PadField(id), special_header(id, Len(bytes))).bytes,
                 special_header(id, Len(bytes)), id, TableData(bytes))

\* What precedes the first member: the global header, the symbol lookup table
\* if one was asked for, the name table if it is not empty.
write_preamble(b) ==
    <<MagicSeg>>
        \o (IF b.symbol_table = None THEN <<>>
            ELSE write_special(GNU_SYMBOL_LOOKUP_TABLE_ID, b.symbol_table[1]))
        \o (IF b.name_table = <<>> THEN <<>>
            ELSE write_special(GNU_NAME_TABLE_ID, b.name_table))

\* Mutant: a long identifier is cut to the width of the field.
name_field_truncated(b, id) == PadField(SubSeq(id, 1, NAME_FIELD_LEN))

\* The name field of a member: the identifier itself when it fits the field,
\* a slash and the decimal offset of the identifier in the name table otherwise.
name_field(b, id) ==
    IF Len(id) <= NAME_FIELD_LEN THEN PadField(id)
    ELSE PadField(<<"/">> \o DecimalText(b.long_names[id]))

Failed(b, sink, error) ==
    [bld |-> [b EXCEPT !.phase = "failed", !.error = error], out |-> sink]

\* GnuBuilder::append(header, data): the builder and the sink after the call.
\* Nothing is written for a member whose identifier cannot be resolved, whose
\* header does not validate or whose header does not fit its columns.
builder_append(b, sink, h, data) ==
    IF Len(identifier(h)) > NAME_FIELD_LEN /\ identifier(h) \notin DOMAIN b.long_names
        THEN Failed(b, sink, "NameTableRequired")
    ELSE IF ~validate(h).ok
        THEN Failed(b, sink, "FieldOverflow")
    ELSE LET text == serialize_header(name_field(b, identifier(h)), h)
         IN  IF ~text.ok
                 THEN Failed(b, sink, "FieldOverflow")
             ELSE [bld |-> [b EXCEPT !.started = TRUE, !.appended = @ + 1],
                   out |-> sink
                            \o (IF b.started THEN <<>> ELSE write_preamble(b))
                            \o write_member(text.bytes, h, identifier(h), data)]

BuilderIdle == bld = IdleBuilder /\ out = <<>>

\* The identifiers members are named with, around the 16-byte field width.
MemberIds == {Name("b", 16), Name("c", 17), Name("d", 18)}

RECURSIVE SeqsUpTo(_, _)
SeqsUpTo(S, n) ==
    IF n = 0 THEN {<<>>}
    ELSE SeqsUpTo(S, n - 1)
            \cup {q \o <<x>> : q \in SeqsUpTo(S, n - 1), x \in S}

Body(n) == Repeat("x", n)

SymbolTableInputs == {None, Some(Body(3))}

\* Body lengths: the small ones, and the two around the width of the size
\* column, 10^10 - 1 (ten digits, odd) and 10^10 (eleven digits).
BodyLengths == {U64(n) : n \in 0..MaxBody} \cup {Nines(10), Pow10(10)}

\* What append is called with: identifier, body length and mode.  The one mode
\* validate() rejects is tried with an empty body.
AppendInputs ==
    (MemberIds \X BodyLengths \X {DefaultMode})
        \cup (MemberIds \X {U64(0)} \X {Low32(Pow8(8))})

BuilderNew(ids, sym) ==
    /\ bld.phase = "none"
    /\ bld' = builder_new(ids, sym)
    /\ out' = <<>>
    /\ UNCHANGED <<hdrVars, ndVars>>

BuilderAppend(id, len, m) ==
    /\ bld.phase = "open"
    /\ bld.appended < MaxAppends
    /\ LET h == set_mode(new(id, len), m)
           r == builder_append(bld, out, h, Data(len, <<>>))
       IN  bld' = r.bld /\ out' = r.out
    /\ UNCHANGED <<hdrVars, ndVars>>

InitBuilder == HeaderIdle /\ NdIdle /\ BuilderIdle

NextBuilder ==
    \/ \E ids \in SeqsUpTo(MemberIds, MaxNames), sym \in SymbolTableInputs :
          BuilderNew(ids, sym)
    \/ \E in \in AppendInputs : BuilderAppend(in[1], in[2], in[3])

SpecBuilder == InitBuilder /\ [][NextBuilder]_vars

(***************************************************************************)
(* A Header used through its public interface.                             *)
(***************************************************************************)
Init == HeaderIdle /\ NdIdle /\ BuilderIdle

Next ==
    \/ \E id \in IdInputs, sz \in SizeInputs : New(id, sz)
    \/ Identifier
    \/ \E m \in ModeInputs : SetMode(m)
    \/ Size
    \/ Validate

Spec == Init /\ [][Next]_vars

(***************************************************************************)
(* validate() as a function of an arbitrary header.                        *)
(***************************************************************************)
InitValidate ==
    /\ hdr \in {Some(h) : h \in AnyHeader}
    /\ ret = NoCall /\ lastMode = None /\ lastValidate = None
    /\ NdIdle /\ BuilderIdle

NextValidate == Validate

SpecValidate == InitValidate /\ [][NextValidate]_vars

(***************************************************************************)
(* num_digits as a function of its arguments.                              *)
(***************************************************************************)
CallNumDigits ==
    /\ ndOut = None
    /\ ndOut' = Some(num_digits(ndIn[1], ndIn[2]))
    /\ UNCHANGED <<ndIn, hdrVars, bldVars>>

InitNumDigits ==
    /\ ndIn \in NdValInputs \X RadixInputs
    /\ ndOut = None
    /\ HeaderIdle /\ BuilderIdle

NextNumDigits == CallNumDigits

SpecNumDigits == InitNumDigits /\ [][NextNumDigits]_vars

(***************************************************************************)
(* Properties of Header and num_digits.                                    *)
(***************************************************************************)
\* v needs more than d digits in base r: v >= r^d.
Exceeds(v, r, d) == ~BigLess(v, BigPow(r, d))

Validated == hdr # None /\ ret.op = "validate"

\* C1: validate() succeeds for every header with mtime < 10^12, uid < 10^6,
\* gid < 10^6 and mode < 8^8, whatever its identifier and size.
C1_ValidateAcceptsInRange ==
    (/\ Validated
     /\ BigLess(hdr[1].mtime, BigPow(10, 12))
     /\ BigLess(hdr[1].uid, BigPow(10, 6))
     /\ BigLess(hdr[1].gid, BigPow(10, 6))
     /\ BigLess(hdr[1].mode, BigPow(8, 8)))
        => ret.val = Ok

\* A header with every checked field at its largest accepted value, and the
\* largest size, has been validated and accepted.
C1_Witness ==
    /\ Validated
    /\ hdr[1].mtime = Nines(12)
    /\ hdr[1].uid = Low32(Nines(6))
    /\ hdr[1].gid = Low32(Nines(6))
    /\ hdr[1].mode = Low32(Sevens(8))
    /\ hdr[1].size = MaxWord(U64Limbs)
    /\ Len(hdr[1].identifier) = 17
    /\ ret.val.ok

\* The fields validate() checks: the text its error starts with, the radix the
\* value is printed in and the digits allowed.
CheckedFields ==
    {[field |-> "mtime", label |-> "MTime ", radix |-> 10, width |-> 12],
     [field |-> "uid",   label |-> "UID ",   radix |-> 10, width |-> 6],
     [field |-> "gid",   label |-> "GID ",   radix |-> 10, width |-> 6],
     [field |-> "mode",  label |-> "Mode ",  radix |-> 8,  width |-> 8]}

Offending(h) == {f \in CheckedFields : Exceeds(h[f.field], f.radix, f.width)}

\* C2: validate() returns an error whenever mtime needs more than 12 decimal
\* digits, uid or gid more than 6, or mode more than 8 octal digits; the error
\* names an offending field and prints that field's value; a header with
\* mtime = 10^12 fails with an error naming mtime.
C2_ValidateRejectsOverflow ==
    (Validated /\ Offending(hdr[1]) # {}) =>
        /\ ~ret.val.ok
        /\ \E f \in Offending(hdr[1]) :
              /\ ret.val.msg[1] = f.label
              /\ BigEq(Parse(ret.val.msg[2], f.radix), hdr[1][f.field])
        /\ (hdr[1].mtime = Pow10(12) => ret.val.msg[1] = "MTime ")

\* validate() has rejected a header whose mtime is 10^12, naming MTime and
\* printing the thirteen digits 1000000000000.
C2_Witness ==
    /\ Validated
    /\ hdr[1].mtime = Pow10(12)
    /\ ~ret.val.ok
    /\ ret.val.msg[1] = "MTime "
    /\ ret.val.msg[2] = <<1>> \o Repeat(0, 12)

\* C3: no header that passes validate() has a numeric field that overflows its
\* column of the 60-byte header: mtime 12, uid 6, gid 6 decimal digits, mode 8
\* octal digits, size 10 decimal digits.
C3_ValidatedFitsColumns ==
    (Validated /\ ret.val.ok) =>
        /\ Offending(hdr[1]) = {}
        /\ ~Exceeds(hdr[1].size, 10, 10)

\* C4: Header::new(identifier, size) always returns a header whose identifier()
\* and size() are the arguments, whose mtime, uid and gid are 0 and whose mode
\* is 0o644; it is callable with every identifier and size.
C4_NewDefaults ==
    /\ hdr = None => \A id \in IdInputs, sz \in SizeInputs : ENABLED New(id, sz)
    /\ ret.op = "new" =>
          /\ hdr = Some(ret.val)
          /\ identifier(ret.val) = ret.args[1]
          /\ size(ret.val) = ret.args[2]
          /\ IsZero(ret.val.mtime) /\ Len(ret.val.mtime) = U64Limbs
          /\ IsZero(ret.val.uid) /\ Len(ret.val.uid) = U32Limbs
          /\ IsZero(ret.val.gid) /\ Len(ret.val.gid) = U32Limbs
          /\ ret.val.mode = <<420, 0>>

\* new() has returned a header for a 17-byte identifier and the size 2^64 - 1.
C4_Witness ==
    /\ ret.op = "new"
    /\ ret.args = <<Name("c", 17), MaxWord(U64Limbs)>>
    /\ ret.val.mode = <<420, 0>>

\* C5: Header::new(identifier, size) sets mtime, uid, gid and mode to zero.
C5_NewAllZero ==
    ret.op = "new" =>
        /\ identifier(ret.val) = ret.args[1]
        /\ size(ret.val) = ret.args[2]
        /\ IsZero(ret.val.mtime)
        /\ IsZero(ret.val.uid)
        /\ IsZero(ret.val.gid)
        /\ IsZero(ret.val.mode)

\* C6: num_digits(0, r) = 1 for every radix r; for val > 0 and r >= 2 the
\* result d is the least d with val < r^d.
C6_NumDigits ==
    ndOut # None =>
        LET val == Into64(ndIn[1])
            r   == ndIn[2]
            d   == ndOut[1]
        IN  /\ IsZero(val) => d = 1
            /\ (~IsZero(val) /\ r >= 2) =>
                  /\ BigLess(val, BigPow(r, d))
                  /\ \A e \in 0..(d - 1) : ~BigLess(val, BigPow(r, e))

\* num_digits(2^64 - 1, 10) has returned 20.
C6_Witness ==
    /\ ndIn = <<MaxWord(U64Limbs), 10>>
    /\ ndOut = Some(20)

\* C7: set_mode(m) is callable with every 32-bit m, sets mode to m and leaves
\* identifier, size, mtime, uid and gid as they were, also for an m validate()
\* rejects; identifier(), size() and validate() change no field.
C7_SetModeFrame ==
    /\ [](hdr # None => \A m \in ModeInputs : ENABLED SetMode(m))
    /\ [][/\ ret'.op = "set_mode" =>
                /\ hdr # None /\ hdr' # None
                /\ hdr'[1].mode = ret'.args[1]
                /\ hdr'[1].identifier = hdr[1].identifier
                /\ hdr'[1].size = hdr[1].size
                /\ hdr'[1].mtime = hdr[1].mtime
                /\ hdr'[1].uid = hdr[1].uid
                /\ hdr'[1].gid = hdr[1].gid
          /\ ret'.op \in {"identifier", "size", "validate"} => hdr' = hdr]_vars

\* set_mode(8^8) was accepted, the header holds that mode, and the validate()
\* that followed rejected it.
C7_Witness ==
    /\ Validated
    /\ lastMode = Some(Low32(Pow8(8)))
    /\ hdr[1].mode = Low32(Pow8(8))
    /\ hdr[1].size = Pow10(10)
    /\ ~ret.val.ok

\* The mode validate() reads according to the calls made: the argument of the
\* latest set_mode, 0o644 when there was none.
ModeByCalls == IF lastMode = None THEN <<420, 0>> ELSE lastMode[1]

\* C10: for a header built by new and then set_mode, identifier, size and
\* validate calls, mtime, uid and gid are always 0; validate() succeeds exactly
\* when the most recently set mode (0o644 if none was set) is below 8^8, never
\* fails on mtime, uid or gid, and returns the same result when called again
\* with no set_mode in between.
C10_PublicHeader ==
    /\ [](hdr # None =>
            /\ IsZero(hdr[1].mtime) /\ IsZero(hdr[1].uid) /\ IsZero(hdr[1].gid)
            /\ ret.op = "validate" =>
                  /\ ret.val.ok <=> BigLess(ModeByCalls, BigPow(8, 8))
                  /\ ~ret.val.ok => ret.val.msg[1] = "Mode ")
    /\ [][(lastValidate # None /\ lastValidate' # None)
              => lastValidate' = lastValidate]_vars

\* validate() has been called after set_mode(2^32 - 1) and failed on the mode,
\* printing it in octal as 37777777777.
C10_Witness ==
    /\ Validated
    /\ lastMode = Some(MaxWord(U32Limbs))
    /\ lastValidate = Some(ret.val)
    /\ ~ret.val.ok
    /\ ret.val.msg[1] = "Mode "
    /\ ret.val.msg[2] = <<3>> \o Repeat(7, 10)

(***************************************************************************)
(* Properties of the archive the builder writes.                           *)
(***************************************************************************)
\* The absolute offset in the sink at which segment i starts.
RECURSIVE Offset(_, _)
Offset(sink, i) ==
    IF i <= 1 THEN <<0>> ELSE BigAdd(Offset(sink, i - 1), sink[i - 1].len)

IsHeader(i) == out[i].kind = "header"
IsBody(i)   == out[i].kind = "body"
IsPad(i)    == out[i].kind = "pad"

\* C8: in the archive the builder writes, each member body is followed by
\* exactly one pad byte (a newline) if its length is odd and by none if it is
\* even, and every member header starts at an even absolute offset.
C8_PaddingKeepsHeadersEven ==
    \A i \in 1..Len(out) :
        /\ out[i].len = U64(Len(out[i].bytes)) \/ (IsBody(i) /\ out[i].bytes = <<>>)
        /\ IsHeader(i) =>
              /\ ~IsOdd(Offset(out, i))
              /\ i < Len(out) /\ IsBody(i + 1)
              /\ out[i].hdr[1].size = out[i + 1].len
        /\ IsBody(i) =>
              /\ i > 1 /\ IsHeader(i - 1)
              /\ IF IsOdd(out[i].len)
                    THEN i < Len(out) /\ IsPad(i + 1) /\ out[i + 1].bytes = <<"\n">>
                    ELSE i = Len(out) \/ ~IsPad(i + 1)
        /\ IsPad(i) => i > 1 /\ IsBody(i - 1)

\* A body of 10^10 - 1 bytes with its pad byte is followed by the header of a
\* member whose body has 2 bytes and no pad byte, with an odd name table
\* written before them.
C8_Witness ==
    \E i \in 1..Len(out) :
        /\ IsBody(i) /\ out[i].len = Nines(10)
        /\ i + 3 = Len(out)
        /\ IsPad(i + 1) /\ IsHeader(i + 2)
        /\ IsBody(i + 3) /\ out[i + 3].len = U64(2)
        /\ \E j \in 1..(i - 1) :
              /\ IsHeader(j) /\ out[j].member = Some(<<"/", "/">>)
              /\ IsOdd(out[j + 1].len) /\ IsPad(j + 2)

\* The text of a 16-byte name field before its space padding.
RECURSIVE Unpadded(_)
Unpadded(field) ==
    IF field = <<>> \/ field[Len(field)] # " " THEN field
    ELSE Unpadded(SubSeq(field, 1, Len(field) - 1))

CharDigit(c) == CHOOSE d \in 0..9 : DigitChar(d) = c

\* The natural a decimal text denotes.
RECURSIVE TextValue(_)
TextValue(text) ==
    IF text = <<>> THEN 0
    ELSE 10 * TextValue(SubSeq(text, 1, Len(text) - 1)) + CharDigit(text[Len(text)])

IsDecimal(text) ==
    /\ text # <<>>
    /\ \A k \in 1..Len(text) : \E d \in 0..9 : text[k] = DigitChar(d)

\* The first 16 bytes of header segment i as written.
NameAsWritten(i) == SubSeq(out[i].bytes, 1, 16)

\* Header segment i is the name table member: its name field reads "//".
IsNameTable(i) == IsHeader(i) /\ Unpadded(NameAsWritten(i)) = <<"/", "/">>

\* Header segment i heads a member the caller appended.
IsAppended(i) == IsHeader(i) /\ out[i].member[1] \in MemberIds

\* C9: a member identifier of at most 16 bytes is written inline in the header;
\* a longer one is written as a slash and the decimal offset at which that
\* identifier starts in the body of the single name-table member "//", which is
\* written after the 8-byte global magic and before every member referring to
\* it; the magic is written once, first.
C9_LongNamesViaNameTable ==
    /\ out # <<>> =>
          /\ out[1].kind = "magic"
          /\ out[1].bytes = <<"!", "<", "a", "r", "c", "h", ">", "\n">>
          /\ Len(out[1].bytes) = GLOBAL_HEADER_LEN
    /\ \A i \in 2..Len(out) : out[i].kind # "magic"
    /\ Cardinality({j \in 1..Len(out) : IsNameTable(j)}) <= 1
    /\ \A i \in 1..Len(out) : IsAppended(i) =>
          LET id   == out[i].member[1]
              text == Unpadded(NameAsWritten(i))
          IN  /\ Len(out[i].bytes) = 60
              /\ Len(id) <= 16 => text = id
              /\ Len(id) > 16 =>
                    /\ text[1] = "/"
                    /\ IsDecimal(Tail(text))
                    /\ \E j \in 2..(i - 1) :
                          /\ IsNameTable(j)
                          /\ SubSeq(out[j + 1].bytes,
                                    TextValue(Tail(text)) + 1,
                                    TextValue(Tail(text)) + Len(id)) = id

\* A 16-byte identifier was written inline and a 17-byte identifier as "/20",
\* the offset at which it follows an 18-byte identifier in the name table.
C9_Witness ==
    \E i, k \in 1..Len(out) :
        /\ IsAppended(i) /\ Len(out[i].member[1]) = 16
        /\ NameAsWritten(i) = out[i].member[1]
        /\ IsAppended(k) /\ Len(out[k].member[1]) = 17
        /\ Unpadded(NameAsWritten(k)) = <<"/", "2", "0">>
        /\ \E j \in 2..(k - 1) : IsNameTable(j) /\ Len(out[j + 1].bytes) = 39

====
